---- MODULE Spec2Model ----
(***************************************************************************)
(* TransformerXL (model_transformer_xl.py): construction with a tied       *)
(* embedding / output projection, the forward pass with its caller-held    *)
(* key/value cache, and repackage_hidden.                                  *)
(*                                                                         *)
(* Abstractions.  The batch axis is dropped (batch elements never          *)
(* interact in the code modelled here).  A float is either an integer or   *)
(* NaN.  The embedding has one column, so the weight matrix is one float   *)
(* per vocabulary row.  TransformerDecoder (util_transformer) is not part  *)
(* of the modelled file; it is modelled from its written contract.         *)
(***************************************************************************)
EXTENDS Integers, Sequences, FiniteSets

VARIABLES
    phase,      \* "new" | "ready" | "failed": where the constructor ended
    cfg,        \* the constructor's arguments
    heap,       \* parameter storage: storage id -> weight rows (or Freed)
    embW,       \* word_embedding.weight: a storage id (0: not created)
    decW,       \* word_decoding.weight: a storage id (0: not created)
    decBias,    \* word_decoding.bias: "none" | "zero" | "random"
    training,   \* nn.Module.training
    held,       \* per caller stream: the cache the caller holds, and its run
    ret,        \* what the latest forward call was given and returned
    memo,       \* an earlier evaluation-mode call, kept for comparison
    ncalls,     \* forward calls made so far
    nupdates,   \* weight updates made so far
    rp          \* the latest direct repackage_hidden call: argument, result

vars == <<phase, cfg, heap, embW, decW, decBias, training, held, ret, memo,
          ncalls, nupdates, rp>>

---------------------------------------------------------------------------
(* Bounds of the model *)

MaxCalls == 3       \* forward calls of a run over the caches
MaxHeadCalls == 1   \* forward calls of a run over the weights
MaxDetCalls == 4    \* forward calls of a run that compares two calls
MaxUpdates == 1
MaxSeg == 2
MaxM == 3
MaxDepth == 2       \* nesting of a structure given to repackage_hidden

(* Program constant *)
CLAMP_EXP == 15

---------------------------------------------------------------------------
(* Floats: an integer or NaN *)

F(n) == [nan |-> FALSE, v |-> n]
NaN == [nan |-> TRUE, v |-> 0]

FAdd(a, b) == IF a.nan \/ b.nan THEN NaN ELSE F(a.v + b.v)
FMul(a, b) == IF a.nan \/ b.nan THEN NaN ELSE F(a.v * b.v)
\* IEEE comparison: false as soon as one side is NaN
FGeq(a, b) == ~a.nan /\ ~b.nan /\ a.v >= b.v

RECURSIVE FSum(_)
FSum(s) == IF s = <<>> THEN F(0) ELSE FAdd(Head(s), FSum(Tail(s)))

Min(a, b) == IF a <= b THEN a ELSE b
Max(a, b) == IF a >= b THEN a ELSE b

None == [kind |-> "none", vals |-> <<>>, graph |-> {}, items |-> <<>>]
NoArg == 0   \* an omitted max_cache_length

---------------------------------------------------------------------------
(* Tensors and nested containers.  A tensor keeps its values along the     *)
(* cached-length axis and the set of forward calls whose autograd graph it *)
(* is attached to (empty: detached).                                       *)

Tensor(vals, graph) ==
    [kind |-> "tensor", vals |-> vals, graph |-> graph, items |-> <<>>]
TupleOf(items) ==
    [kind |-> "tuple", vals |-> <<>>, graph |-> {}, items |-> items]
ListOf(items) ==
    [kind |-> "list", vals |-> <<>>, graph |-> {}, items |-> items]

\* h.detach(): same values and shape, no graph
Detach(h) == [h EXCEPT !.graph = {}]

\* A plausible slip: only the outer level is rebuilt, nested tensors are kept
RECURSIVE repackage_hidden_flat(_)
repackage_hidden_flat(h) ==
    IF h.kind = "tensor"
    THEN Detach(h)
    ELSE TupleOf([i \in 1..Len(h.items) |->
                    IF h.items[i].kind = "tensor"
                    THEN Detach(h.items[i])
                    ELSE TupleOf(h.items[i].items)])

\* A plausible slip: the last entry of a container is lost
RECURSIVE repackage_hidden_short(_)
repackage_hidden_short(h) ==
    IF h.kind = "tensor"
    THEN Detach(h)
    ELSE TupleOf([i \in 1..(Len(h.items) - 1) |->
                    repackage_hidden_short(h.items[i])])

RECURSIVE repackage_hidden(_)
repackage_hidden(h) ==
    IF h.kind = "tensor"
    THEN Detach(h)
    ELSE TupleOf([i \in 1..Len(h.items) |-> repackage_hidden(h.items[i])])

\* Every tensor of a nested structure, at every depth
RECURSIVE Leaves(_)
Leaves(h) ==
    IF h.kind = "tensor"
    THEN {h}
    ELSE UNION {Leaves(h.items[i]) : i \in 1..Len(h.items)}

---------------------------------------------------------------------------
(* Construction *)

BaseConfig ==
    [n_layer |-> 2, n_embedding |-> 1, n_state_ffn |-> 1, n_head |-> 1,
     n_context |-> 2, vocab_size |-> 2, n_positional_embedding |-> 1]

Configs ==
    { BaseConfig,
      [BaseConfig EXCEPT !.n_layer = 1],
      [BaseConfig EXCEPT !.n_head = 2],
      [BaseConfig EXCEPT !.n_head = 0],
      [BaseConfig EXCEPT !.n_layer = 0],
      [BaseConfig EXCEPT !.n_embedding = 0],
      [BaseConfig EXCEPT !.n_state_ffn = 0],
      [BaseConfig EXCEPT !.n_context = 0],
      [BaseConfig EXCEPT !.n_positional_embedding = 0],
      [BaseConfig EXCEPT !.vocab_size = 0],
      [BaseConfig EXCEPT !.vocab_size = -1] }

\* What the written interface asks of a configuration
ValidConfig(c) ==
    /\ c.n_layer > 0 /\ c.n_embedding > 0 /\ c.n_state_ffn > 0
    /\ c.n_head > 0 /\ c.n_context > 0 /\ c.vocab_size > 0
    /\ c.n_positional_embedding > 0
    /\ c.n_embedding % c.n_head = 0

\* nn.Embedding(vocab_size, n_embedding) and nn.Linear(n_embedding,
\* vocab_size, bias=False) allocate a (vocab_size, n_embedding) parameter:
\* a negative size raises, a size of zero gives an empty parameter.
TorchParamOk(c) == c.vocab_size >= 0 /\ c.n_embedding >= 0

\* TransformerDecoder's constructor receives every size but vocab_size
DecoderCtorOk(c) ==
    /\ c.n_layer > 0 /\ c.n_embedding > 0 /\ c.n_state_ffn > 0
    /\ c.n_head > 0 /\ c.n_context > 0 /\ c.n_positional_embedding > 0
    /\ c.n_embedding % c.n_head = 0

InitVals == {F(-1), F(1)}
TrainVals == {F(8), F(-8), NaN}

Rows(c, S) == [1..Max(c.vocab_size, 0) -> S]

\* The module's parameters: st.heap is the sequence of live storages
NoParams == [heap |-> <<>>, embW |-> 0, decW |-> 0, decBias |-> "none"]

NewEmbedding(st, r) ==
    [st EXCEPT !.heap = Append(st.heap, r), !.embW = Len(st.heap) + 1]

NewLinearWithBias(st, r) ==
    [st EXCEPT !.heap = Append(st.heap, r), !.decW = Len(st.heap) + 1,
               !.decBias = "random"]

NewLinear(st, r) ==
    [st EXCEPT !.heap = Append(st.heap, r), !.decW = Len(st.heap) + 1,
               !.decBias = "none"]

\* A plausible slip: the projection gets a copy of the embedding's values
TieWeightsByCopy(st) ==
    [st EXCEPT !.heap[st.decW] = st.heap[st.embW]]

\* word_decoding.weight = word_embedding.weight: the projection's own
\* storage (the last one allocated) is no longer referenced
TieWeights(st) ==
    [st EXCEPT !.decW = st.embW,
               !.heap = SubSeq(st.heap, 1, Len(st.heap) - 1)]

\* __init_weight on a Linear or an Embedding: normal_ in place, bias zeroed
init_weight_module(st, ptr, r, isLinear) ==
    [st EXCEPT !.heap[ptr] = r,
               !.decBias = IF isLinear /\ st.decBias # "none"
                           THEN "zero" ELSE st.decBias]

\* init_weight: apply visits word_embedding, then word_decoding
init_weight(st, r1, r2) ==
    init_weight_module(init_weight_module(st, st.embW, r1, FALSE),
                     st.decW, r2, TRUE)

NoReturn ==
    [call |-> 0, stream |-> 0, ids |-> <<>>, mcl |-> 0, given |-> None,
     training |-> FALSE, mask |-> FALSE, output |-> <<>>, prob |-> <<>>,
     pred |-> <<>>, kv |-> None, lossGraph |-> {}, raw |-> <<>>]

\* two independent callers
Streams == {1, 2}

NoRun == [k |-> 0, s |-> 0, m |-> 0, prev |-> -1]

InitWith(C) ==
    /\ phase = "new"
    /\ cfg \in C
    /\ heap = <<>>
    /\ embW = 0
    /\ decW = 0
    /\ decBias = "none"
    /\ training = TRUE
    /\ held = [c \in Streams |-> [kv |-> None, run |-> NoRun]]
    /\ ret = NoReturn
    /\ memo = NoReturn
    /\ ncalls = 0
    /\ nupdates = 0
    /\ rp = <<>>

Init == InitWith(Configs)

\* __init__: an exception of any step leaves the constructor at once
ConstructRows(R) ==
    /\ phase = "new"
    /\ \E r0, r1, r2, r3 \in R :
         IF ~TorchParamOk(cfg) \/ ~DecoderCtorOk(cfg)
         THEN /\ phase' = "failed"
              /\ UNCHANGED <<heap, embW, decW, decBias>>
         ELSE LET st == init_weight(
                          TieWeights(NewLinear(NewEmbedding(NoParams, r0), r1)),
                          r2, r3)
              IN /\ phase' = "ready"
                 /\ heap' = st.heap
                 /\ embW' = st.embW
                 /\ decW' = st.decW
                 /\ decBias' = st.decBias
    /\ UNCHANGED <<cfg, training, held, ret, memo, ncalls, nupdates, rp>>

\* the values normal_ draws are taken from S
ConstructWith(S) == ConstructRows(Rows(cfg, S))

Construct == ConstructWith(InitVals)

\* init_weight() called again on a constructed model
InitWeight ==
    /\ phase = "ready"
    /\ nupdates < MaxUpdates
    /\ \E r1, r2 \in Rows(cfg, InitVals) :
         LET st == init_weight([heap |-> heap, embW |-> embW, decW |-> decW,
                                  decBias |-> decBias], r1, r2)
         IN /\ heap' = st.heap
            /\ decBias' = st.decBias
    /\ nupdates' = nupdates + 1
    /\ memo' = NoReturn
    /\ UNCHANGED <<phase, cfg, embW, decW, training, held, ret, ncalls, rp>>

\* A training step writes one row of a module's weight in place
UpdateWeight ==
    /\ phase = "ready"
    /\ nupdates < MaxUpdates
    /\ \E viaDecoding \in BOOLEAN, row \in 1..Max(cfg.vocab_size, 0),
          x \in TrainVals :
         LET ptr == IF viaDecoding THEN decW ELSE embW
         IN heap' = [heap EXCEPT ![ptr][row] = x]
    /\ nupdates' = nupdates + 1
    /\ memo' = NoReturn
    /\ UNCHANGED <<phase, cfg, embW, decW, decBias, training, held, ret,
                   ncalls, rp>>

\* nn.Module.train() / nn.Module.eval()
SetMode ==
    /\ phase = "ready"
    /\ training' = ~training
    /\ UNCHANGED <<phase, cfg, heap, embW, decW, decBias, held, ret, memo,
                   ncalls, nupdates, rp>>

---------------------------------------------------------------------------
(* TransformerDecoder, from its contract: per layer the incoming keys and  *)
(* values are concatenated with the segment's and cut from the front to    *)
(* the bound; the hidden state at a position is a causal aggregate of the  *)
(* cached context and the segment up to that position.  Every call draws   *)
(* a dropout mask from the random generator; the decoder, a registered     *)
(* submodule that train() and eval() reach, applies it in training mode    *)
(* only.                                                                   *)

LastN(s, n) == IF Len(s) <= n THEN s ELSE SubSeq(s, Len(s) - n + 1, Len(s))

CacheBound(max_cache_length) ==
    IF max_cache_length = NoArg THEN cfg.n_context ELSE max_cache_length

GraphOf(h) == UNION {t.graph : t \in Leaves(h)}

DecoderLayerCache(emb, cached, l, bound, call) ==
    LET old(j) == IF cached = None THEN <<>> ELSE cached.items[l].items[j].vals
        kv(j)  == Tensor(LastN(old(j) \o emb, bound),
                         (IF cached = None THEN {}
                          ELSE cached.items[l].items[j].graph) \cup {call})
    IN TupleOf(<<kv(1), kv(2)>>)

TransformerDecoder(emb, cached, max_cache_length, call, drop) ==
    LET bound == CacheBound(max_cache_length)
        ctx   == IF cached = None THEN <<>> ELSE cached.items[1].items[1].vals
    IN [logit |-> [p \in 1..Len(emb) |->
                     IF training /\ drop
                     THEN F(0)
                     ELSE FSum(ctx \o SubSeq(emb, 1, p))],
        cache |-> ListOf([l \in 1..cfg.n_layer |->
                            DecoderLayerCache(emb, cached, l, bound, call)]),
        graph |-> (IF cached = None THEN {} ELSE GraphOf(cached)) \cup {call}]

---------------------------------------------------------------------------
(* forward *)

\* self.word_embedding(x): one row per id
word_embedding(W, x) == [p \in 1..Len(x) |-> W[x[p] + 1]]

\* self.word_decoding(logit): hidden state times the transposed matrix
word_decoding(W, logit) ==
    [p \in 1..Len(logit) |-> [v \in 1..Len(W) |-> FMul(logit[p], W[v])]]

\* A plausible slip: the bounds rescale instead of saturating
ClampRescale(x) ==
    IF x.nan THEN NaN
    ELSE IF x.v >= CLAMP_EXP \/ x.v <= -CLAMP_EXP THEN F(x.v \div 2) ELSE x

\* Tensor.clamp(min=-CLAMP_EXP, max=CLAMP_EXP) on one element
Clamp(x) ==
    IF x.nan THEN NaN ELSE F(Max(-CLAMP_EXP, Min(CLAMP_EXP, x.v)))

HasNaN(row) == \E v \in 1..Len(row) : row[v].nan

\* the greatest element of a NaN-free row
RowMax(row) ==
    CHOOSE m \in {row[v].v : v \in 1..Len(row)} :
        \A v \in 1..Len(row) : row[v].v <= m

\* A plausible slip: the last of several maximal entries is taken
TorchMaxIndexLast(row) ==
    IF HasNaN(row)
    THEN (CHOOSE v \in 1..Len(row) :
             row[v].nan /\ \A u \in 1..Len(row) : row[u].nan => u <= v) - 1
    ELSE (CHOOSE v \in 1..Len(row) :
             /\ row[v].v = RowMax(row)
             /\ \A u \in 1..Len(row) : row[u].v = RowMax(row) => u <= v) - 1

\* torch.max(output, dim=1)[1] on one row: the index of the first maximal
\* entry, a NaN counting as maximal
TorchMaxIndex(row) ==
    IF HasNaN(row)
    THEN (CHOOSE v \in 1..Len(row) :
             row[v].nan /\ \A u \in 1..(v - 1) : ~row[u].nan) - 1
    ELSE (CHOOSE v \in 1..Len(row) :
             /\ row[v].v = RowMax(row)
             /\ \A u \in 1..(v - 1) : row[u].v # RowMax(row)) - 1

\* softmax on one row.  A probability exp(x - max) / Z is kept as its
\* exponent x - max: Z is shared by the row and exp is increasing, so the
\* order of the exponents is the order of the probabilities.
Softmax(row) ==
    IF HasNaN(row)
    THEN [v \in 1..Len(row) |-> NaN]
    ELSE [v \in 1..Len(row) |-> F(row[v].v - RowMax(row))]

\* A plausible slip: the caller's cache is not handed on
ForwardCacheArgDropped(cached_key_value) == None

\* A plausible slip: the model keeps the cache itself and falls back on it
ForwardCacheArgKept(cached_key_value) ==
    IF cached_key_value = None THEN ret.kv ELSE cached_key_value

\* the cache handed to the decoder: the caller's argument as it is
ForwardCacheArg(cached_key_value) == cached_key_value

\* A plausible slip: an omitted bound falls back on the last one passed
ForwardMaxLenArgKept(max_cache_length) ==
    IF max_cache_length = NoArg THEN ret.mcl ELSE max_cache_length

\* the bound handed to the decoder: the caller's argument as it is
ForwardMaxLenArg(max_cache_length) == max_cache_length

\* A plausible slip: functional dropout on the embedding, whose training
\* flag defaults to True whatever the module's mode
ForwardEmbeddingArgDropout(w_embedding, drop) ==
    IF drop THEN [p \in 1..Len(w_embedding) |-> F(0)] ELSE w_embedding

\* the embedding handed to the decoder: the looked-up rows as they are
\* (self.dropout_embedding is constructed but never called)
ForwardEmbeddingArg(w_embedding, drop) == w_embedding

forward(x, cached_key_value, max_cache_length, call, drop) ==
    LET w_embedding == ForwardEmbeddingArg(word_embedding(heap[embW], x), drop)
        dec    == TransformerDecoder(w_embedding,
                                     ForwardCacheArg(cached_key_value),
                                     ForwardMaxLenArg(max_cache_length),
                                     call, drop)
        kv     == repackage_hidden(dec.cache)
        raw    == word_decoding(heap[decW], dec.logit)
        output == [p \in 1..Len(raw) |->
                     [v \in 1..Len(raw[p]) |-> Clamp(raw[p][v])]]
    IN [output |-> output,
        prob   |-> [p \in 1..Len(output) |-> Softmax(output[p])],
        pred   |-> [p \in 1..Len(output) |-> TorchMaxIndex(output[p])],
        kv     |-> kv,
        raw    |-> raw,
        lossGraph |-> dec.graph]

IdSeqs == UNION {[1..n -> 0..(cfg.vocab_size - 1)] : n \in 1..MaxSeg}

\* segments filled with one id, as in the module's debug run
SampleSeqs == {[p \in 1..n |-> 1] : n \in {1, MaxSeg}}

\* omitted, below the configured context length, above it
MaxLenArgs == {NoArg, 1, MaxM}

\* The caller's bookkeeping of a stream: k calls in a row that passed the
\* cache on with the same segment length s and the same bound argument m
\* (k = 0: the calls differed); prev is the bound argument of the call before
\* the latest of the stream (-1: the latest call started afresh).
NextRun(run, fresh, s, m) ==
    IF fresh
    THEN [k |-> 1, s |-> s, m |-> m, prev |-> -1]
    ELSE [k |-> IF run.k > 0 /\ run.s = s /\ run.m = m THEN run.k + 1 ELSE 0,
          s |-> s, m |-> m, prev |-> run.m]

\* One forward call by a caller that holds one cache per stream: the caller
\* passes the stream's cache or none, and keeps the returned cache.  drop is
\* the dropout mask the call's random draws give, in either mode; keep
\* remembers an evaluation-mode call for a later comparison; chains tells
\* whether the caller keeps the bookkeeping of its chains.
ForwardWith(STREAMS, IDS, MCLS, DROPS, KEEPS, chains, cap) ==
    /\ phase = "ready"
    /\ ncalls < cap
    /\ \E c \in STREAMS, ids \in (IDS \cap IdSeqs), mcl \in MCLS,
          pass \in BOOLEAN, drop \in DROPS, keep \in KEEPS :
         /\ pass => held[c].kv # None
         /\ keep => ~training /\ memo = NoReturn
         /\ LET given == IF pass THEN held[c].kv ELSE None
                r     == forward(ids, given, mcl, ncalls + 1, drop)
            IN /\ ret' = [call |-> ncalls + 1, stream |-> c, ids |-> ids,
                          mcl |-> mcl, given |-> given,
                          training |-> training, mask |-> drop,
                          output |-> r.output,
                          prob |-> r.prob, pred |-> r.pred, kv |-> r.kv,
                          lossGraph |-> r.lossGraph, raw |-> r.raw]
               /\ held' = [held EXCEPT ![c] =
                             [kv |-> r.kv,
                              run |-> IF chains
                                      THEN NextRun(held[c].run, given = None,
                                                   Len(ids), mcl)
                                      ELSE NoRun]]
               /\ memo' = IF keep THEN ret' ELSE memo
    /\ ncalls' = ncalls + 1
    /\ UNCHANGED <<phase, cfg, heap, embW, decW, decBias, training, nupdates,
                   rp>>

---------------------------------------------------------------------------
(* Specifications: the same operations, each with the inputs its          *)
(* properties are about.                                                   *)

\* Construction, weight updates and the debug run's calls
ForwardSample ==
    ForwardWith({1}, SampleSeqs, {NoArg}, {FALSE}, {FALSE}, TRUE,
                MaxHeadCalls)
Next == Construct \/ InitWeight \/ UpdateWeight \/ SetMode \/ ForwardSample
Spec == Init /\ [][Next]_vars

\* The cache over chains of calls on two streams, the weights as constructed
InitBase == InitWith({BaseConfig})
ConstructOnes == ConstructWith({F(1)})
ForwardCache ==
    ForwardWith(Streams, SampleSeqs, MaxLenArgs, BOOLEAN, {FALSE}, TRUE,
                MaxCalls)
NextCache == ConstructOnes \/ ForwardCache
SpecCache == InitBase /\ [][NextCache]_vars

\* The output head over trained weights (dropout, which acts inside the
\* decoder, is left out: it only changes which hidden states reach the head)
ForwardHead ==
    ForwardWith({1}, IdSeqs, {NoArg}, {FALSE}, {FALSE}, TRUE, MaxHeadCalls)
NextHead == Construct \/ UpdateWeight \/ ForwardHead
SpecHead == InitBase /\ [][NextHead]_vars

\* Repeated calls in either mode over differing weights, ids and dropout
\* masks, one evaluation-mode call remembered
DetSeqs == {s \in IdSeqs : Len(s) = 1}
\* initial weights whose rows all differ, in one order of the rows
DetRows ==
    {r \in Rows(cfg, InitVals) :
        \A u, v \in DOMAIN r : u < v => r[u].v < r[v].v}
ConstructDet == ConstructRows(DetRows)
ForwardDet ==
    ForwardWith({1}, DetSeqs, {NoArg, 1}, BOOLEAN, BOOLEAN, FALSE,
                MaxDetCalls)
NextDet == ConstructDet \/ SetMode \/ ForwardDet
SpecDet == InitBase /\ [][NextDet]_vars

\* repackage_hidden on nested structures of tensors
SampleTensors ==
    { Tensor(<<F(1)>>, {1}), Tensor(<<NaN, F(2)>>, {}), Tensor(<<>>, {1}) }

RECURSIVE Nested(_)
Nested(d) ==
    IF d = 0
    THEN SampleTensors
    ELSE LET below == Nested(d - 1)
         IN below \cup {ListOf(items) :
                          items \in UNION {[1..n -> below] : n \in 0..2}}

RepackageHidden ==
    /\ rp = <<>>
    /\ \E h \in Nested(MaxDepth) : rp' = <<h, repackage_hidden(h)>>
    /\ UNCHANGED <<phase, cfg, heap, embW, decW, decBias, training, held, ret,
                   memo, ncalls, nupdates>>

NextRepackage == RepackageHidden
SpecRepackage == InitBase /\ [][NextRepackage]_vars

---------------------------------------------------------------------------
(* Properties *)

\* the tensors of layer l of a cache: its key and its value
LayerTensors(kv, l) == {kv.items[l].items[j] : j \in 1..Len(kv.items[l].items)}

\* one key and one value per layer, n_layer layers
WellFormed(kv) ==
    /\ kv # None
    /\ Len(kv.items) = cfg.n_layer
    /\ \A l \in 1..Len(kv.items) : Len(kv.items[l].items) = 2

\* every key and value of every layer has cached length n
AllLengths(kv, n) ==
    /\ WellFormed(kv)
    /\ \A l \in 1..Len(kv.items) : \A t \in LayerTensors(kv, l) : Len(t.vals) = n

\* cached length of the cache a call was given (0: none given)
GivenLen(r) ==
    IF r.given = None THEN 0 ELSE Len(r.given.items[1].items[1].vals)

\* C1: in a chain of k calls that starts without a cache, passes each
\* returned cache on, and uses the same max_cache_length m and the same
\* segment length s in every call, the cache returned by call k has cached
\* length min(k*s, m) in the key and the value of every layer.
C1_CacheLength ==
    \A c \in Streams :
        LET run == held[c].run
        IN (run.k >= 1 /\ run.m # NoArg)
              => AllLengths(held[c].kv, Min(run.k * run.s, run.m))

\* a third call of a uniform chain whose cache grew and was then cut
C1_Witness ==
    \E c \in Streams :
        LET run == held[c].run
        IN /\ run.k = 3 /\ run.m # NoArg
           /\ run.s < run.m /\ run.m < run.k * run.s
           /\ cfg.n_layer = 2
           /\ AllLengths(held[c].kv, run.m)

\* C2: every tensor of the cache forward returns, at every depth, is
\* detached, and the graph of a call's outputs reaches no earlier call.
C2_Detached ==
    ret.call >= 1 =>
        /\ \A t \in Leaves(ret.kv) : t.graph = {}
        /\ \A c \in Streams : \A t \in Leaves(held[c].kv) : t.graph = {}
        /\ ret.lossGraph = {ret.call}

\* a call that was given the cache of an earlier call
C2_Witness ==
    /\ ret.call >= 2
    /\ ret.given # None
    /\ Leaves(ret.kv) # {}
    /\ ret.lossGraph = {ret.call}

\* C3: once constructed, the embedding and the projection hold the same
\* storage, hence the same values, and the projection has no bias.
C3_WeightTying ==
    phase = "ready" =>
        /\ embW # 0
        /\ decW = embW
        /\ heap[decW] = heap[embW]
        /\ decBias = "none"

\* a constructed model one of whose rows a training step has written
C3_Witness ==
    /\ phase = "ready"
    /\ nupdates >= 1
    /\ \E v \in 1..Len(heap[embW]) : heap[embW][v] \in TrainVals
    /\ ret.call >= 1

InRange(x) == FGeq(x, F(-CLAMP_EXP)) /\ FGeq(F(CLAMP_EXP), x)

ClampedAsClaimed(raw, out) ==
    /\ InRange(out)
    /\ FGeq(raw, F(CLAMP_EXP)) => out = F(CLAMP_EXP)
    /\ FGeq(F(-CLAMP_EXP), raw) => out = F(-CLAMP_EXP)
    /\ (~FGeq(raw, F(CLAMP_EXP)) /\ ~FGeq(F(-CLAMP_EXP), raw)) => out = raw

Positions(r) == 1..Len(r.output)
Vocab(r, p) == 1..Len(r.output[p])

\* C4 as stated: every returned score lies in [-15, 15], saturated at the
\* bounds and unchanged strictly between them.
C4_AllScoresInRange ==
    \A p \in Positions(ret) : \A v \in Vocab(ret, p) :
        ClampedAsClaimed(ret.raw[p][v], ret.output[p][v])

\* C4, amended: every returned score that is not NaN lies in [-15, 15],
\* saturated at the bounds and unchanged strictly between them; a projected
\* score that is NaN is returned as NaN.
C4_Clamp ==
    \A p \in Positions(ret) : \A v \in Vocab(ret, p) :
        IF ret.raw[p][v].nan
        THEN ret.output[p][v].nan
        ELSE ClampedAsClaimed(ret.raw[p][v], ret.output[p][v])

\* one call that saturates at both bounds and leaves a score unchanged
C4_Witness ==
    /\ \E p \in Positions(ret) : \E v \in Vocab(ret, p) :
          ~ret.raw[p][v].nan /\ ret.raw[p][v].v > CLAMP_EXP
            /\ ret.output[p][v] = F(CLAMP_EXP)
    /\ \E p \in Positions(ret) : \E v \in Vocab(ret, p) :
          ~ret.raw[p][v].nan /\ ret.raw[p][v].v < -CLAMP_EXP
            /\ ret.output[p][v] = F(-CLAMP_EXP)
    /\ \E p \in Positions(ret) : \E v \in Vocab(ret, p) :
          ~ret.raw[p][v].nan /\ ret.raw[p][v].v < CLAMP_EXP
            /\ ret.raw[p][v].v > -CLAMP_EXP
            /\ ret.output[p][v] = ret.raw[p][v]

\* index i (from 0) is the lowest index of a greatest clamped score of the
\* row, and carries a greatest probability
LowestArgmax(r, p, i) ==
    /\ i + 1 \in Vocab(r, p)
    /\ \A v \in Vocab(r, p) : FGeq(r.output[p][i + 1], r.output[p][v])
    /\ \A v \in 1..i : ~FGeq(r.output[p][v], r.output[p][i + 1])
    /\ \A v \in Vocab(r, p) : FGeq(r.prob[p][i + 1], r.prob[p][v])

\* C5 as stated: at every position the prediction is the lowest index of a
\* greatest clamped score and has the greatest probability.
C5_AllPredictionsArgmax ==
    \A p \in Positions(ret) : LowestArgmax(ret, p, ret.pred[p])

\* C5, amended: at every position whose scores hold no NaN, the prediction
\* is the lowest index of a greatest clamped score and has the greatest
\* probability of the position.
C5_Argmax ==
    \A p \in Positions(ret) :
        ~HasNaN(ret.output[p]) => LowestArgmax(ret, p, ret.pred[p])

\* several scores saturate at 15 and the first of them is predicted
C5_Witness ==
    \E p \in Positions(ret) :
        /\ \A v \in Vocab(ret, p) :
              ret.raw[p][v].v > CLAMP_EXP /\ ret.output[p][v] = F(CLAMP_EXP)
        /\ Len(ret.output[p]) >= 2
        /\ ret.pred[p] = 0

\* the cache a call must return, from what the call was given alone
ExpectedVals(r, l, j) ==
    LastN((IF r.given = None THEN <<>> ELSE r.given.items[l].items[j].vals)
            \o word_embedding(heap[embW], r.ids),
          CacheBound(r.mcl))

\* C6: the model keeps no cache: a call given none returns a cache of
\* length min(segment, bound) whatever preceded it, and the cache a call
\* returns is made of the cache it was given and its segment alone.
C6_NoKeptCache ==
    ret.call >= 1 =>
        /\ WellFormed(ret.kv)
        /\ ret.given = None =>
              AllLengths(ret.kv, Min(Len(ret.ids), CacheBound(ret.mcl)))
        /\ \A l \in 1..cfg.n_layer : \A j \in 1..2 :
              ret.kv.items[l].items[j].vals = ExpectedVals(ret, l, j)

\* a call without a cache made while both streams hold one
C6_Witness ==
    /\ ret.call >= 3
    /\ ret.given = None
    /\ \E c \in Streams : c # ret.stream /\ held[c].kv # None
                           /\ GivenLen([given |-> held[c].kv]) > Len(ret.ids)
    /\ AllLengths(ret.kv, Len(ret.ids))

\* C7: a passed max_cache_length bounds the cache of that call; a call
\* that omits it cuts at n_context, whatever earlier calls passed.
C7_BoundPerCall ==
    ret.call >= 1 =>
        /\ ret.mcl # NoArg =>
              \A t \in Leaves(ret.kv) : Len(t.vals) <= ret.mcl
        /\ ret.mcl = NoArg =>
              AllLengths(ret.kv, Min(GivenLen(ret) + Len(ret.ids), cfg.n_context))

\* a call that omits the bound after a call of its chain passed a larger one
C7_Witness ==
    /\ ret.call >= 2
    /\ ret.mcl = NoArg
    /\ held[ret.stream].run.prev > cfg.n_context
    /\ GivenLen(ret) > cfg.n_context
    /\ AllLengths(ret.kv, cfg.n_context)

SameInputs(a, b) ==
    a.ids = b.ids /\ a.given = b.given /\ a.mcl = b.mcl

\* C8: in evaluation mode a call given the ids, cache and bound of an
\* earlier evaluation-mode call returns the same scores, probabilities,
\* predictions and cache, whatever calls were made before or in between,
\* in whatever mode, and whatever the random generator gave either call.
C8_Deterministic ==
    (memo.call >= 1 /\ ret.call > memo.call
       /\ ~memo.training /\ ~ret.training /\ SameInputs(ret, memo)) =>
        /\ ret.output = memo.output
        /\ ret.prob = memo.prob
        /\ ret.pred = memo.pred
        /\ ret.kv = memo.kv

\* the same call repeated with a cache, another call in between, the two
\* calls with different random draws, the scores differing over the
\* vocabulary
C8_Witness ==
    /\ memo.call >= 1
    /\ ret.call >= memo.call + 2
    /\ ~memo.training /\ ~ret.training
    /\ ret.given # None
    /\ SameInputs(ret, memo)
    /\ ret.mask # memo.mask
    /\ \E p \in Positions(ret) : \E u, v \in Vocab(ret, p) :
          ret.output[p][u] # ret.output[p][v]
    /\ ret.output = memo.output
    /\ ret.kv = memo.kv

\* C9 as stated: a configuration with a non-positive size or an embedding
\* dimension not divisible by the head count never yields a constructed
\* model.
C9_InvalidConfigFails ==
    ~ValidConfig(cfg) => phase # "ready"

RECURSIVE SameNesting(_, _)
SameNesting(a, b) ==
    IF a.kind = "tensor" \/ b.kind = "tensor"
    THEN a.kind = b.kind /\ a.vals = b.vals
    ELSE /\ Len(a.items) = Len(b.items)
         /\ \A i \in 1..Len(a.items) : SameNesting(a.items[i], b.items[i])

\* C10: repackage_hidden returns a structure with the nesting, the entry
\* counts and order, and the tensor shapes and values of its argument, with
\* every tensor detached.
C10_RepackageFrame ==
    rp # <<>> =>
        /\ SameNesting(rp[1], rp[2])
        /\ \A t \in Leaves(rp[2]) : t.graph = {}

\* a structure two levels deep with attached tensors at both levels
C10_Witness ==
    /\ rp # <<>>
    /\ rp[1].kind = "list"
    /\ \E i \in 1..Len(rp[1].items) :
          rp[1].items[i].kind = "tensor" /\ rp[1].items[i].graph # {}
    /\ \E i \in 1..Len(rp[1].items) :
          /\ rp[1].items[i].kind = "list"
          /\ \E j \in 1..Len(rp[1].items[i].items) :
                rp[1].items[i].items[j].graph # {}
    /\ Leaves(rp[1]) # Leaves(rp[2])

====
